---- MODULE Spec2Model ----
(***************************************************************************)
(* Model of the fare search handler index() of src/app.py.                 *)
(*                                                                         *)
(* One POSTed search is a run of the state machine: Post validates the     *)
(* form and, when no error was recorded, issues the Fare API request of    *)
(* the first route; the handler then blocks on requests.get.  Each         *)
(* response either raises (FetchFails, or an exception while the fares are *)
(* extracted) or is normalised into results and followed by the request of *)
(* the next route; after the last route the results are sorted, paginated  *)
(* and rendered.                                                           *)
(*                                                                         *)
(* Amounts of money are integers counting thousandths of a currency unit   *)
(* ("milli"); a formatted price (f"{x:.2f}") is an integer counting        *)
(* hundredths ("cents").  Dates are day numbers, day 0 being a Monday.     *)
(* The deep link of a fare record is not modelled: nothing reads it.       *)
(***************************************************************************)
EXTENDS Integers, Sequences, FiniteSets, TLC

\* ------------------------------------------------------------------ bounds
\* number of fares in the long upstream response
BulkLen == 25
\* first day of the searched date range (a Monday)
DayFrom == 0
\* length of the searched date range, in days
RangeDays == 2

\* --------------------------------------------------------- optional values
None == {}
Some(x) == {x}
Val(o) == CHOOSE x \in o : TRUE

\* ---------------------------------------------------------- reference data
\* The two snapshots fetch_airports_data can leave behind: the loaded list,
\* or the empty list of its except branch.
AirportsLoaded ==
  << [code |-> "DUB", country_code |-> "IE"],
     [code |-> "ORK", country_code |-> "IE"],
     [code |-> "STN", country_code |-> "GB"] >>

AirportsEmpty == << >>

\* Python's order on the airport codes used here (sorted()).
CodeOrder == << "DUB", "ORK", "STN", "XXX" >>

Range(s) == { s[i] : i \in 1..Len(s) }

\* sorted({...}) over a set of codes
SortedCodes(S) == SelectSeq(CodeOrder, LAMBDA c : c \in S)

\* valid_codes = {c for c, _ in AIRPORTS}
ValidCodes(raw) == { raw[i].code : i \in 1..Len(raw) }

\* {a["code"] for a in AIRPORTS_RAW if a["country_code"] in countries}
CodesOfCountries(raw, countries) ==
  { raw[i].code : i \in { j \in 1..Len(raw) : raw[j].country_code \in countries } }

MARKET_BY_CURRENCY(cur) ==
  CASE cur = "EUR" -> "en-ie"
    [] cur = "PLN" -> "pl-pl"
    [] cur = "GBP" -> "en-gb"
    [] OTHER -> "en-ie"

\* ------------------------------------------------------------ form values
\* A date string: a valid YYYY-MM-DD ("iso"), the same followed by a time
\* ("isoT"), another text ("bad"), the empty string, or absent.
DateStr(kind, day) == [kind |-> kind, day |-> day]
\* An integer field: digits with an optional sign ("int"), or anything else.
IntStr(kind, n) == [kind |-> kind, n |-> n]
\* The max_price field: empty, a decimal number, or another text.
PriceStr(kind, milli) == [kind |-> kind, milli |-> milli]

FormDates ==
  { << DateStr("iso", DayFrom), DateStr("iso", DayFrom + RangeDays) >>,
    << DateStr("iso", DayFrom + RangeDays), DateStr("iso", DayFrom) >>,
    << DateStr("bad", 0), DateStr("iso", DayFrom) >> }

FormStays ==
  { << IntStr("int", 2), IntStr("int", 5) >>,
    << IntStr("int", 0), IntStr("int", 5) >>,
    << IntStr("int", 5), IntStr("int", 2) >>,
    << IntStr("other", 0), IntStr("int", 5) >> }

FormMaxPrices ==
  { PriceStr("empty", 0), PriceStr("number", 10006), PriceStr("number", 0),
    PriceStr("other", 0) }

\* out_weekday: "", "0", and a text that is not all digits
FormWeekdays == { IntStr("empty", 0), IntStr("digits", 0), IntStr("other", 0) }

\* page: non-numeric, and integers below, inside and above the range
FormPages ==
  { IntStr("other", 0), IntStr("int", 0), IntStr("int", -1), IntStr("int", 2),
    IntStr("int", 99) }

\* The airport and country selections of a form.
Selections ==
  [ departures : { << >>, << "DUB" >>, << "DUB", "ORK", "DUB" >>, << "ORK", "XXX" >> },
    departure_country : { "", "IE", "ZZ" },
    arrival : { "", "STN", "XXX" },
    arrival_countries : { << >>, << "GB", "ZZ" >>, << "ZZ" >> } ]

Selection(deps, country, arr, countries) ==
  [departures |-> deps, departure_country |-> country, arrival |-> arr,
   arrival_countries |-> countries]

\* One, two and three routes.
SomeSelections ==
  { Selection(<< "DUB" >>, "", "STN", << >>),
    Selection(<< "XXX" >>, "IE", "XXX", << "GB", "ZZ" >>),
    Selection(<< "DUB", "ORK", "DUB" >>, "", "STN", << >>) }

\* The fields validation parses.
Checks ==
  [ dates : FormDates, stay : FormStays, max_price : FormMaxPrices,
    one_way_only : BOOLEAN ]

\* The fields that only shape the result.
Views == [ currency : { "EUR", "PLN" }, out_weekday : FormWeekdays, page : FormPages ]

SomeViews == { [currency |-> "EUR", out_weekday |-> IntStr("empty", 0),
                page |-> IntStr("int", 2)] }

Form(s, c, v) ==
  [departures |-> s.departures, departure_country |-> s.departure_country,
   arrival |-> s.arrival, arrival_countries |-> s.arrival_countries,
   dates |-> c.dates, stay |-> c.stay, max_price |-> c.max_price,
   one_way_only |-> c.one_way_only,
   currency |-> v.currency, out_weekday |-> v.out_weekday, page |-> v.page]

\* The forms posted: every selection under one view, and every view under
\* some selections.
Forms ==
  { Form(x[1], x[2], x[3]) : x \in Selections \X Checks \X SomeViews }
    \cup { Form(x[1], x[2], x[3]) : x \in SomeSelections \X Checks \X Views }

\* ------------------------------------------------------------- validation
PER_PAGE == 48

Max(a, b) == IF a >= b THEN a ELSE b
Min(a, b) == IF a <= b THEN a ELSE b

\* page = max(1, int(request.form.get("page") or "1")), 1 on ValueError
ParsePage(p) == IF p.kind = "int" THEN Max(1, p.n) ELSE 1

\* departures: the country wins over the explicit codes
DepAirports(f, raw) ==
  IF f.departure_country # ""
  THEN SortedCodes(CodesOfCountries(raw, { f.departure_country }))
  ELSE f.departures

DepErrors(f, raw) ==
  IF f.departure_country # ""
  THEN IF DepAirports(f, raw) = << >>
       THEN << "No departure airports found for selected departure country." >>
       ELSE << >>
  ELSE IF f.departures = << >>
       THEN << "Select at least one Departure airport or a Departure country." >>
       ELSE IF \E i \in 1..Len(f.departures) : f.departures[i] \notin ValidCodes(raw)
            THEN << "Invalid departure airport(s)" >>
            ELSE << >>

\* arrivals: the countries win over the single airport
DestAirports(f, raw) ==
  IF f.arrival_countries # << >>
  THEN SortedCodes(CodesOfCountries(raw, Range(f.arrival_countries)))
  ELSE IF f.arrival = "" \/ f.arrival \notin ValidCodes(raw)
       THEN << >>
       ELSE << f.arrival >>

DestErrors(f, raw) ==
  IF f.arrival_countries # << >>
  THEN IF DestAirports(f, raw) = << >>
       THEN << "No arrival airports found for selected destination countries." >>
       ELSE << >>
  ELSE IF f.arrival = ""
       THEN << "Select Arrival airport or at least one Destination country." >>
       ELSE IF f.arrival \notin ValidCodes(raw)
            THEN << "Invalid Arrival airport." >>
            ELSE << >>

\* datetime.strptime(s, "%Y-%m-%d") of the form's dates
DatesParse(f) == f.dates[1].kind = "iso" /\ f.dates[2].kind = "iso"

DateErrors(f) ==
  IF DatesParse(f)
  THEN IF f.dates[1].day > f.dates[2].day
       THEN << "Departure 'From' date must be before 'To' date." >>
       ELSE << >>
  ELSE << "Invalid dates." >>

StayParses(f) == f.stay[1].kind = "int" /\ f.stay[2].kind = "int"

StayErrors(f) ==
  IF f.one_way_only THEN << >>
  ELSE IF StayParses(f)
       THEN (IF f.stay[1].n <= 0 \/ f.stay[2].n <= 0
             THEN << "Stay days must be positive." >> ELSE << >>)
            \o (IF f.stay[1].n > f.stay[2].n
                THEN << "Stay 'From' must be <= 'To'." >> ELSE << >>)
       ELSE << "Provide valid stay days for round trips." >>

MaxPrice(f) == IF f.max_price.kind = "number" THEN Some(f.max_price.milli) ELSE None

MaxPriceErrors(f) ==
  CASE f.max_price.kind = "empty" -> << >>
    [] f.max_price.kind = "number" ->
         IF f.max_price.milli <= 0 THEN << "Max price must be positive." >> ELSE << >>
    [] OTHER -> << "Max price must be a number (e.g. 299.99)." >>

Errors(f, raw) ==
  DepErrors(f, raw) \o DestErrors(f, raw) \o DateErrors(f) \o StayErrors(f)
    \o MaxPriceErrors(f)

\* wanted_weekday = int(out_weekday_s) if out_weekday_s.isdigit() else None
WantedWeekday(f) == IF f.out_weekday.kind = "digits" THEN Some(f.out_weekday.n) ELSE None

\* ------------------------------------------------------------------ money
\* FX: the rate of (from_cur, to_cur) as a fraction << num, den >>, None when
\* the table has no entry.  4.30 = 43/10, 0.86 = 43/50, (1/4.30)*0.86 = 1/5.
FX(from_cur, to_cur) ==
  CASE from_cur = "EUR" /\ to_cur = "PLN" -> Some(<< 43, 10 >>)
    [] from_cur = "PLN" /\ to_cur = "EUR" -> Some(<< 10, 43 >>)
    [] from_cur = "EUR" /\ to_cur = "GBP" -> Some(<< 43, 50 >>)
    [] from_cur = "GBP" /\ to_cur = "EUR" -> Some(<< 50, 43 >>)
    [] from_cur = "PLN" /\ to_cur = "GBP" -> Some(<< 1, 5 >>)
    [] from_cur = "GBP" /\ to_cur = "PLN" -> Some(<< 5, 1 >>)
    [] OTHER -> None

\* A JSON value read as an amount: a number ("num"), a text float() accepts
\* ("numtext"), a text it rejects ("text"), or absent/null ("missing").
Amount(kind, milli) == [kind |-> kind, milli |-> milli]

\* float(amount): "ok" with the value, or "raise" (ValueError)
Float(amount) ==
  IF amount.kind \in { "num", "numtext" }
  THEN [tag |-> "ok", milli |-> amount.milli]
  ELSE [tag |-> "raise", milli |-> 0]

\* convert_price: "ok" with the converted amount, "none" when the pair has no
\* rate, "raise" when float() rejects the amount.  The amounts used by the
\* model divide exactly.
convert_price(amount, from_cur, to_cur) ==
  IF from_cur = to_cur
  THEN Float(amount)
  ELSE IF FX(from_cur, to_cur) = None
       THEN [tag |-> "none", milli |-> 0]
       ELSE IF Float(amount).tag = "raise"
            THEN Float(amount)
            ELSE [tag |-> "ok",
                  milli |-> (Float(amount).milli * Val(FX(from_cur, to_cur))[1])
                              \div Val(FX(from_cur, to_cur))[2]]

\* f"{x:.2f}": thousandths rounded to hundredths, ties to even
Format2f(milli) ==
  LET q == milli \div 10
      r == milli % 10
  IN IF r < 5 THEN q
     ELSE IF r > 5 THEN q + 1
     ELSE IF q % 2 = 0 THEN q ELSE q + 1

\* float(x["price"]): the formatted price read back, in thousandths
ParsePrice(cents) == cents * 10

\* date.weekday(): Monday is 0
Weekday(day) == day % 7

\* ------------------------------------------------------- fare normaliser
\* The outcome of one upstream entry: a fare record, a silent skip
\* (continue), or an exception that leaves the loops.
Skip == [tag |-> "skip"]
Raise(e) == [tag |-> "raise", exc |-> e]
Rec(r) == [tag |-> "rec", rec |-> r]

\* A JSON price object: absent or null ("missing"), a value that is not an
\* object ("scalar"), or an object with value/amount/currencyCode/currency.
\* A currency field is a code, "missing" or "null".
PriceObj(kind, value, amount, currencyCode, currency) ==
  [kind |-> kind, value |-> value, amount |-> amount,
   currencyCode |-> currencyCode, currency |-> currency]

NoAmount == Amount("missing", 0)
NoPrice == PriceObj("missing", NoAmount, NoAmount, "missing", "missing")

\* Lines 324-329 and 367-370: conversion, then the max-price filter on the
\* converted value; "ok" carries the formatted price.
EffectivePrice(price, raw_curr, currency, max_price) ==
  LET conv == convert_price(price, raw_curr, currency)
  IN IF conv.tag = "raise" THEN [tag |-> "raise", cents |-> 0]
     ELSE IF conv.tag = "none" THEN [tag |-> "skip", cents |-> 0]
     ELSE IF max_price # None /\ conv.milli > Val(max_price)
          THEN [tag |-> "skip", cents |-> 0]
          ELSE [tag |-> "ok", cents |-> Format2f(conv.milli)]

\* One entry of the one-way response (lines 300-337).
NormalizeOneWay(fare, dep, arr, currency, max_price, wanted_weekday) ==
  IF ~fare.isobj THEN Raise("AttributeError")
  ELSE IF fare.unavailable # "false" \/ fare.price.kind = "missing" THEN Skip
  ELSE IF fare.day.kind \in { "missing", "empty" } THEN Skip
  ELSE IF fare.price.kind = "scalar" THEN Raise("AttributeError")
  ELSE IF fare.price.currencyCode = "null" THEN Raise("AttributeError")
  ELSE IF fare.day.kind # "iso" THEN Skip
  ELSE IF fare.price.value.kind = "missing" THEN Skip
  ELSE IF wanted_weekday # None /\ Weekday(fare.day.day) # Val(wanted_weekday) THEN Skip
  ELSE LET raw_curr == IF fare.price.currencyCode = "missing"
                       THEN currency ELSE fare.price.currencyCode
           eff == EffectivePrice(fare.price.value, raw_curr, currency, max_price)
       IN IF eff.tag = "raise" THEN Raise("ValueError")
          ELSE IF eff.tag = "skip" THEN Skip
          ELSE Rec([route |-> << dep, arr >>, out_date |-> fare.day.day,
                    price |-> eff.cents, currency |-> currency])

\* parse_iso_date (lines 161-163): None for an absent or empty string, the
\* date of the part before "T", ValueError for any other text.
parse_iso_date(d) ==
  CASE d.kind \in { "missing", "empty" } -> [tag |-> "none", day |-> 0]
    [] d.kind \in { "iso", "isoT" } -> [tag |-> "date", day |-> d.day]
    [] OTHER -> [tag |-> "raise", day |-> 0]

\* A leg of a round-trip combination: absent ("missing"), not an object
\* ("scalar"), or an object with departureDate and date.
Leg(kind, departureDate, date) ==
  [kind |-> kind, departureDate |-> departureDate, date |-> date]

NoDate == DateStr("missing", 0)

\* parse_iso_date(leg.get("departureDate") if leg else None)
\*   or parse_iso_date(leg.get("date") if leg else None)    (lines 357-358)
LegDate(leg) ==
  IF leg.kind = "missing" THEN [tag |-> "none", day |-> 0, exc |-> ""]
  ELSE IF leg.kind = "scalar" THEN [tag |-> "raise", day |-> 0, exc |-> "AttributeError"]
  ELSE LET first == parse_iso_date(leg.departureDate)
           second == parse_iso_date(leg.date)
       IN IF first.tag = "raise" THEN [tag |-> "raise", day |-> 0, exc |-> "ValueError"]
          ELSE IF first.tag = "date" THEN [tag |-> "date", day |-> first.day, exc |-> ""]
          ELSE IF second.tag = "raise"
               THEN [tag |-> "raise", day |-> 0, exc |-> "ValueError"]
               ELSE [tag |-> second.tag, day |-> second.day, exc |-> ""]

\* Python truth of an amount: None and 0 are false
Truthy(a) == a.kind \in { "numtext", "text" } \/ (a.kind = "num" /\ a.milli # 0)

\* p.get("value") or p.get("amount")
ValueOrAmount(p) == IF Truthy(p.value) THEN p.value ELSE p.amount

\* (p.get("currencyCode") or p.get("currency") or currency).upper()
CurrencyOf(p, currency) ==
  IF p.currencyCode \notin { "missing", "null" } THEN p.currencyCode
  ELSE IF p.currency \notin { "missing", "null" } THEN p.currency
  ELSE currency

\* Lines 361-366: the price object of the combination, from "price" or from
\* "summary"."price"; "none" leaves price = None.
PickPrice(combo) ==
  IF combo.price.kind = "scalar" THEN [tag |-> "raise", p |-> NoPrice]
  ELSE IF combo.price.kind = "obj" THEN [tag |-> "ok", p |-> combo.price]
  ELSE IF combo.summary.kind = "missing" THEN [tag |-> "none", p |-> NoPrice]
  ELSE IF combo.summary.kind = "scalar" THEN [tag |-> "raise", p |-> NoPrice]
  ELSE IF combo.summary.price.kind = "missing" THEN [tag |-> "none", p |-> NoPrice]
  ELSE IF combo.summary.price.kind = "scalar" THEN [tag |-> "raise", p |-> NoPrice]
  ELSE [tag |-> "ok", p |-> combo.summary.price]

\* The weekday filter applied to the inbound date instead of the outbound one.
NormalizeRoundTripInbound(combo, dep, arr, currency, max_price, wanted_weekday) ==
  IF ~combo.isobj THEN Raise("AttributeError")
  ELSE LET out_d == LegDate(combo.outbound)
           in_d == LegDate(combo.inbound)
           pick == PickPrice(combo)
       IN IF out_d.tag = "raise" THEN Raise(out_d.exc)
          ELSE IF in_d.tag = "raise" THEN Raise(in_d.exc)
          ELSE IF out_d.tag = "none" \/ in_d.tag = "none" THEN Skip
          ELSE IF wanted_weekday # None /\ Weekday(in_d.day) # Val(wanted_weekday)
               THEN Skip
          ELSE IF pick.tag = "raise" THEN Raise("AttributeError")
          ELSE IF pick.tag = "none" \/ ValueOrAmount(pick.p).kind = "missing" THEN Skip
          ELSE LET eff == EffectivePrice(ValueOrAmount(pick.p),
                                         CurrencyOf(pick.p, currency), currency, max_price)
               IN IF eff.tag = "raise" THEN Raise("ValueError")
                  ELSE IF eff.tag = "skip" THEN Skip
                  ELSE Rec([route |-> << dep, arr >>, out_date |-> out_d.day,
                            in_date |-> in_d.day, price |-> eff.cents,
                            currency |-> currency])

\* One combination of the round-trip response (lines 355-376).
NormalizeRoundTrip(combo, dep, arr, currency, max_price, wanted_weekday) ==
  IF ~combo.isobj THEN Raise("AttributeError")
  ELSE LET out_d == LegDate(combo.outbound)
           in_d == LegDate(combo.inbound)
           pick == PickPrice(combo)
       IN IF out_d.tag = "raise" THEN Raise(out_d.exc)
          ELSE IF in_d.tag = "raise" THEN Raise(in_d.exc)
          ELSE IF out_d.tag = "none" \/ in_d.tag = "none" THEN Skip
          ELSE IF wanted_weekday # None /\ Weekday(out_d.day) # Val(wanted_weekday)
               THEN Skip
          ELSE IF pick.tag = "raise" THEN Raise("AttributeError")
          ELSE IF pick.tag = "none" \/ ValueOrAmount(pick.p).kind = "missing" THEN Skip
          ELSE LET eff == EffectivePrice(ValueOrAmount(pick.p),
                                         CurrencyOf(pick.p, currency), currency, max_price)
               IN IF eff.tag = "raise" THEN Raise("ValueError")
                  ELSE IF eff.tag = "skip" THEN Skip
                  ELSE Rec([route |-> << dep, arr >>, out_date |-> out_d.day,
                            in_date |-> in_d.day, price |-> eff.cents,
                            currency |-> currency])

\* ----------------------------------------------------- upstream responses
\* An entry of the one-way fare list.
Fare(isobj, unavailable, day, price) ==
  [isobj |-> isobj, unavailable |-> unavailable, day |-> day, price |-> price]

\* A price object holding only "value" and, unless cur is "missing",
\* "currencyCode".
Priced(milli, cur) == PriceObj("obj", Amount("num", milli), NoAmount, cur, "missing")

OW_Mon == Fare(TRUE, "false", DateStr("iso", DayFrom), Priced(10006, "missing"))
OW_Tue == Fare(TRUE, "false", DateStr("iso", DayFrom + 1), Priced(2330, "EUR"))
OW_Wed == Fare(TRUE, "false", DateStr("iso", DayFrom + 2),
               PriceObj("obj", Amount("numtext", 4300), NoAmount, "PLN", "missing"))
OW_Unavailable == Fare(TRUE, "true", DateStr("iso", DayFrom), Priced(1000, "missing"))
OW_NoFlag == Fare(TRUE, "missing", DateStr("iso", DayFrom), Priced(1000, "missing"))
OW_NoPrice == Fare(TRUE, "false", DateStr("iso", DayFrom), NoPrice)
OW_NoDay == Fare(TRUE, "false", NoDate, Priced(1000, "missing"))
OW_BadDay == Fare(TRUE, "false", DateStr("bad", 0), Priced(1000, "missing"))
OW_DayT == Fare(TRUE, "false", DateStr("isoT", DayFrom), Priced(1000, "missing"))
OW_Usd == Fare(TRUE, "false", DateStr("iso", DayFrom), Priced(1000, "USD"))
OW_NoValue == Fare(TRUE, "false", DateStr("iso", DayFrom),
                   PriceObj("obj", NoAmount, NoAmount, "missing", "missing"))
OW_ScalarPrice == Fare(TRUE, "false", DateStr("iso", DayFrom),
                       PriceObj("scalar", NoAmount, NoAmount, "missing", "missing"))
OW_TextValue == Fare(TRUE, "false", DateStr("iso", DayFrom),
                     PriceObj("obj", Amount("text", 0), NoAmount, "missing", "missing"))
OW_NullCur == Fare(TRUE, "false", DateStr("iso", DayFrom), Priced(1000, "null"))
OW_NotObj == Fare(FALSE, "missing", NoDate, NoPrice)

\* The price of the i-th fare of the long response: unsorted, with thousandths.
BulkMilli(i) == 5000 + ((i * 7) % 13) * 1003

OneWayBulk ==
  [i \in 1..BulkLen |->
     Fare(TRUE, "false", DateStr("iso", DayFrom + (i % (RangeDays + 1))),
          Priced(BulkMilli(i), "missing"))]

\* The fare lists a one-way query can return (data["outbound"]["fares"]).
OneWayResponses ==
  { << >>,
    << OW_Tue, OW_Mon >>,
    << OW_Unavailable, OW_NoFlag, OW_NoPrice, OW_NoDay, OW_BadDay, OW_DayT, OW_Usd,
       OW_NoValue, OW_Wed >>,
    OneWayBulk,
    << OW_Mon, OW_ScalarPrice, OW_Tue >>,
    << OW_TextValue >>,
    << OW_NullCur >>,
    << OW_NotObj >> }

\* A combination of the round-trip fare list.
Combo(isobj, outbound, inbound, price, summary) ==
  [isobj |-> isobj, outbound |-> outbound, inbound |-> inbound, price |-> price,
   summary |-> summary]

Summary(kind, price) == [kind |-> kind, price |-> price]
NoSummary == Summary("missing", NoPrice)
NoLeg == Leg("missing", NoDate, NoDate)
Departs(day) == Leg("obj", DateStr("iso", day), NoDate)

\* out Monday, back Thursday
RT_Mon == Combo(TRUE, Departs(DayFrom), Departs(DayFrom + 3), Priced(10006, "missing"),
                NoSummary)
\* out Monday, back the next Monday
RT_MonMon == Combo(TRUE, Departs(DayFrom), Departs(DayFrom + 7), Priced(7000, "missing"),
                   NoSummary)
\* the other field names: "date" with a time, summary.price.amount/currency
RT_Tue == Combo(TRUE, Leg("obj", NoDate, DateStr("isoT", DayFrom + 1)),
                Leg("obj", DateStr("empty", 0), DateStr("iso", DayFrom + 3)), NoPrice,
                Summary("obj", PriceObj("obj", Amount("num", 0), Amount("num", 2330),
                                        "null", "EUR")))
RT_NoOutbound == Combo(TRUE, NoLeg, Departs(DayFrom + 3), Priced(1000, "missing"),
                       NoSummary)
RT_NoInboundDate == Combo(TRUE, Departs(DayFrom), Leg("obj", NoDate, NoDate),
                          Priced(1000, "missing"), NoSummary)
RT_NoPrice == Combo(TRUE, Departs(DayFrom), Departs(DayFrom + 3), NoPrice, NoSummary)
RT_ZeroValue == Combo(TRUE, Departs(DayFrom), Departs(DayFrom + 3), Priced(0, "missing"),
                      NoSummary)
RT_Usd == Combo(TRUE, Departs(DayFrom), Departs(DayFrom + 3), Priced(1000, "USD"),
                NoSummary)
RT_BadDate == Combo(TRUE, Leg("obj", DateStr("bad", 0), NoDate), Departs(DayFrom + 3),
                    Priced(1000, "missing"), NoSummary)
RT_BadInbound == Combo(TRUE, NoLeg, Leg("obj", NoDate, DateStr("bad", 0)),
                       Priced(1000, "missing"), NoSummary)
RT_ScalarLeg == Combo(TRUE, Leg("scalar", NoDate, NoDate), Departs(DayFrom + 3),
                      Priced(1000, "missing"), NoSummary)
RT_ScalarPrice == Combo(TRUE, Departs(DayFrom), Departs(DayFrom + 3),
                        PriceObj("scalar", NoAmount, NoAmount, "missing", "missing"),
                        NoSummary)
RT_TextValue == Combo(TRUE, Departs(DayFrom), Departs(DayFrom + 3),
                      PriceObj("obj", Amount("text", 0), NoAmount, "missing", "missing"),
                      NoSummary)

RoundTripBulk ==
  [i \in 1..BulkLen |->
     Combo(TRUE, Departs(DayFrom + (i % (RangeDays + 1))),
           Departs(DayFrom + (i % (RangeDays + 1)) + 2 + (i % 4)),
           Priced(BulkMilli(i), "missing"), NoSummary)]

\* The fare lists a round-trip query can return (data["fares"] or data["trips"]).
RoundTripResponses ==
  { << >>,
    << RT_Tue, RT_Mon, RT_MonMon >>,
    << RT_NoOutbound, RT_NoInboundDate, RT_NoPrice, RT_ZeroValue, RT_Usd, RT_Tue >>,
    RoundTripBulk,
    << RT_Mon, RT_BadDate, RT_Tue >>,
    << RT_BadInbound >>,
    << RT_ScalarLeg >>,
    << RT_ScalarPrice >>,
    << RT_TextValue >> }

\* What makes requests.get, raise_for_status or r.json raise.
UpstreamFailures ==
  { "ConnectionError", "Timeout", "HTTPError 429", "HTTPError 503", "HTTPError 404",
    "JSONDecodeError" }

\* The inner loop over one response (lines 300-337, 355-376): the records
\* appended so far, and the exception that ended the loop, if any.
RECURSIVE ProcessFares(_, _, _, _, _, _, _, _, _)
ProcessFares(fares, i, acc, one_way, dep, arr, currency, max_price, wanted_weekday) ==
  IF i > Len(fares) THEN [exc |-> "", results |-> acc]
  ELSE LET n == IF one_way
                THEN NormalizeOneWay(fares[i], dep, arr, currency, max_price,
                                     wanted_weekday)
                ELSE NormalizeRoundTrip(fares[i], dep, arr, currency, max_price,
                                        wanted_weekday)
       IN IF n.tag = "raise" THEN [exc |-> n.exc, results |-> acc]
          ELSE ProcessFares(fares, i + 1,
                            IF n.tag = "rec" THEN Append(acc, n.rec) ELSE acc,
                            one_way, dep, arr, currency, max_price, wanted_weekday)

\* ------------------------------------------------------------- aggregator
\* results.sort(key=lambda x: float(x["price"])): a stable sort
RECURSIVE SortFrom(_, _, _)
SortFrom(rs, i, sorted) ==
  IF i > Len(rs) THEN sorted
  ELSE LET k == Len(SelectSeq(sorted,
                     LAMBDA e : ParsePrice(e.price) <= ParsePrice(rs[i].price)))
       IN SortFrom(rs, i + 1,
                   SubSeq(sorted, 1, k) \o << rs[i] >> \o SubSeq(sorted, k + 1, Len(sorted)))

\* The sort left out: discovery order.
SortByPriceSkipped(rs) == rs

SortByPrice(rs) == SortFrom(rs, 1, << >>)

\* total_pages = max(1, math.ceil(total / PER_PAGE))
TotalPages(total) == Max(1, (total + PER_PAGE - 1) \div PER_PAGE)

\* The clamp without its upper end.
ClampPageNoUpper(p, total_pages) == Max(1, p)

\* page = min(max(1, page), total_pages)
ClampPage(p, total_pages) == Min(Max(1, p), total_pages)

\* results[start:end]
PageResults(rs, p) ==
  SubSeq(rs, (p - 1) * PER_PAGE + 1, Min(p * PER_PAGE, Len(rs)))

\* ---------------------------------------------------------- state machine
VARIABLES
  AIRPORTS_RAW,   \* the reference data loaded at start-up
  pc,             \* "idle", "fetch" (blocked in requests.get) or "done"
  posted,         \* the posted selections and page, as sent (request.form)
  errors,         \* the validation messages
  dep_airports,   \* the expanded departure airports, in iteration order
  dest_airports,  \* the expanded arrival airports, in iteration order
  crit,           \* one_way, currency, max_price, wanted_weekday, dates, stay
  page,           \* the parsed, later clamped, page number
  route,          \* the position of the loops: the index of the route in flight
  requests,       \* the Fare API requests issued so far, in order
  results,        \* the fare records collected (sorted once the loops end)
  exc,            \* the exception caught by the handler, "" if none
  response        \* the rendered template and its arguments

vars == << AIRPORTS_RAW, pc, posted, errors, dep_airports, dest_airports, crit, page,
           route, requests, results, exc, response >>

NoCrit == [one_way |-> TRUE, currency |-> "", max_price |-> None,
           wanted_weekday |-> None, d_from |-> 0, d_to |-> 0,
           min_stay |-> None, max_stay |-> None]

NoPost == [departures |-> << >>, departure_country |-> "", arrival |-> "",
           arrival_countries |-> << >>, page |-> IntStr("empty", 0)]

NoResponse == [template |-> "", errors |-> << >>, results |-> << >>, page |-> 0,
               total_pages |-> 0, total |-> 0]

\* render_template("index.html", errors=...)
IndexPage(errs) == [template |-> "index.html", errors |-> errs, results |-> << >>,
                    page |-> 0, total_pages |-> 0, total |-> 0]

\* render_template("results.html", results=page_results, page=..., ...)
ResultsPage(rs, p) ==
  [template |-> "results.html", errors |-> << >>,
   results |-> PageResults(rs, ClampPage(p, TotalPages(Len(rs)))),
   page |-> ClampPage(p, TotalPages(Len(rs))),
   total_pages |-> TotalPages(Len(rs)), total |-> Len(rs)]

Criteria(f) ==
  [one_way |-> f.one_way_only, currency |-> f.currency, max_price |-> MaxPrice(f),
   wanted_weekday |-> WantedWeekday(f),
   d_from |-> f.dates[1].day, d_to |-> f.dates[2].day,
   min_stay |-> IF f.one_way_only THEN None ELSE Some(f.stay[1].n),
   max_stay |-> IF f.one_way_only THEN None ELSE Some(f.stay[2].n)]

NumRoutes(deps, dests) == Len(deps) * Len(dests)

\* for dep in dep_airports: for arr in dest_airports: the k-th pair visited
RouteAt(deps, dests, k) ==
  << deps[((k - 1) \div Len(dests)) + 1], dests[((k - 1) % Len(dests)) + 1] >>

\* The query of route k (lines 286-292, 341-351).
FareRequest(k, deps, dests, c) ==
  IF c.one_way
  THEN [api |-> "oneWayFares", k |-> k, dep |-> RouteAt(deps, dests, k)[1],
        arr |-> RouteAt(deps, dests, k)[2],
        outboundDateFrom |-> c.d_from, outboundDateTo |-> c.d_to,
        market |-> MARKET_BY_CURRENCY(c.currency)]
  ELSE [api |-> "roundTripFares", k |-> k, dep |-> RouteAt(deps, dests, k)[1],
        arr |-> RouteAt(deps, dests, k)[2],
        outboundDateFrom |-> c.d_from, outboundDateTo |-> c.d_to,
        inboundDateFrom |-> c.d_from, inboundDateTo |-> c.d_to + Val(c.max_stay),
        durationFrom |-> Val(c.min_stay), durationTo |-> Val(c.max_stay),
        market |-> MARKET_BY_CURRENCY(c.currency)]

Init ==
  /\ AIRPORTS_RAW \in { AirportsLoaded, AirportsEmpty }
  /\ pc = "idle"
  /\ posted = NoPost
  /\ errors = << >>
  /\ dep_airports = << >>
  /\ dest_airports = << >>
  /\ crit = NoCrit
  /\ page = 1
  /\ route = 0
  /\ requests = << >>
  /\ results = << >>
  /\ exc = ""
  /\ response = NoResponse

\* GET /: the empty search form (line 410).
Get ==
  /\ pc = "idle"
  /\ pc' = "done"
  /\ response' = IndexPage(<< >>)
  /\ UNCHANGED << AIRPORTS_RAW, posted, errors, dep_airports, dest_airports, crit, page,
                  route, requests, results, exc >>

\* POST /: lines 190-294 up to the first blocking requests.get, or up to the
\* return of line 272 when `stop` (the test of line 271) holds.
PostStep(f, stop) ==
  /\ pc = "idle"
  /\ posted' = [departures |-> f.departures, departure_country |-> f.departure_country,
                arrival |-> f.arrival, arrival_countries |-> f.arrival_countries,
                page |-> f.page]
  /\ page' = ParsePage(f.page)
  /\ errors' = Errors(f, AIRPORTS_RAW)
  /\ dep_airports' = DepAirports(f, AIRPORTS_RAW)
  /\ dest_airports' = DestAirports(f, AIRPORTS_RAW)
  /\ IF stop
     THEN /\ pc' = "done"
          /\ response' = IndexPage(Errors(f, AIRPORTS_RAW))
          /\ UNCHANGED << crit, route, requests >>
     ELSE /\ pc' = "fetch"
          /\ crit' = Criteria(f)
          /\ route' = 1
          /\ requests' = << FareRequest(1, DepAirports(f, AIRPORTS_RAW),
                                        DestAirports(f, AIRPORTS_RAW), Criteria(f)) >>
          /\ UNCHANGED response
  /\ UNCHANGED << AIRPORTS_RAW, results, exc >>

\* The early return taken before the dates, the stay and the max price are
\* validated: only the selection errors stop the search.
PostSelectionOnly(f) ==
  PostStep(f, DepErrors(f, AIRPORTS_RAW) \o DestErrors(f, AIRPORTS_RAW) # << >>)

\* POST /: the whole validation, then `if errors: return` (lines 190-275).
Post(f) == PostStep(f, Errors(f, AIRPORTS_RAW) # << >>)

\* The except branch (lines 377-382): the search form with one message.
SearchFailed(e) ==
  /\ pc' = "done"
  /\ exc' = e
  /\ response' = IndexPage(<< "Search failed" >>)

\* A failing route skipped: the loops go on with the next route.
FetchFailsSkipsRoute(e) ==
  /\ pc = "fetch"
  /\ exc' = e
  /\ IF route < NumRoutes(dep_airports, dest_airports)
     THEN /\ route' = route + 1
          /\ requests' = Append(requests, FareRequest(route + 1, dep_airports,
                                                      dest_airports, crit))
          /\ UNCHANGED << pc, page, results, response >>
     ELSE /\ results' = SortByPrice(results)
          /\ page' = ClampPage(page, TotalPages(Len(results)))
          /\ response' = ResultsPage(SortByPrice(results), page)
          /\ pc' = "done"
          /\ UNCHANGED << route, requests >>
  /\ UNCHANGED << AIRPORTS_RAW, posted, errors, dep_airports, dest_airports, crit >>

\* requests.get, raise_for_status or r.json raises (lines 293-294, 352-353).
FetchFails(e) ==
  /\ pc = "fetch"
  /\ SearchFailed(e)
  /\ UNCHANGED << AIRPORTS_RAW, posted, errors, dep_airports, dest_airports, crit, page,
                  route, requests, results >>

\* The response of the route in flight arrives with this fare list: its
\* entries are normalised; then the next route is queried, or, after the
\* last route, the results are sorted, paginated and rendered (384-408).
FetchReturns(fares) ==
  /\ pc = "fetch"
  /\ LET r == RouteAt(dep_airports, dest_airports, route)
         done == ProcessFares(fares, 1, results, crit.one_way, r[1], r[2],
                              crit.currency, crit.max_price, crit.wanted_weekday)
     IN IF done.exc # ""
        THEN /\ SearchFailed(done.exc)
             /\ results' = done.results
             /\ UNCHANGED << page, route, requests >>
        ELSE IF route < NumRoutes(dep_airports, dest_airports)
        THEN /\ results' = done.results
             /\ route' = route + 1
             /\ requests' = Append(requests, FareRequest(route + 1, dep_airports,
                                                         dest_airports, crit))
             /\ UNCHANGED << pc, page, exc, response >>
        ELSE /\ results' = SortByPrice(done.results)
             /\ page' = ClampPage(page, TotalPages(Len(done.results)))
             /\ response' = ResultsPage(SortByPrice(done.results), page)
             /\ pc' = "done"
             /\ UNCHANGED << route, requests, exc >>
  /\ UNCHANGED << AIRPORTS_RAW, posted, errors, dep_airports, dest_airports, crit >>

Responses == IF crit.one_way THEN OneWayResponses ELSE RoundTripResponses

Next ==
  \/ Get
  \/ pc = "idle" /\ \E f \in Forms : Post(f)
  \/ pc = "fetch" /\ \E e \in UpstreamFailures : FetchFails(e)
  \/ pc = "fetch" /\ \E fares \in Responses : FetchReturns(fares)

Spec == Init /\ [][Next]_vars

\* ------------------------------------------------------------- properties
Countries(raw) == { raw[i].country_code : i \in 1..Len(raw) }

\* C1: a search whose validation recorded an error issues no Fare API
\* request and renders the search form with exactly the validation messages;
\* a Fare API request exists only while the error list is empty.
NoRequestOnValidationError ==
  /\ errors # << >> =>
       /\ requests = << >>
       /\ pc = "done"
       /\ response.template = "index.html"
       /\ response.errors = errors
  /\ requests # << >> => errors = << >>

\* C1 witness: a posted form was rejected with a validation message.
RejectedForm == errors # << >> /\ pc = "done" /\ posted.departures # << >>

\* C2: with a max price set, every fare record of a result has a formatted
\* price that, read back as a number, is at most the max price.
FormattedPriceWithinMaxPrice ==
  (response.template = "results.html" /\ crit.max_price # None) =>
    \A i \in 1..Len(results) : ParsePrice(results[i].price) <= Val(crit.max_price)

RequestedPage == IF posted.page.kind = "int" THEN posted.page.n ELSE 1

\* C4: total_pages is max(1, ceil(total / 48)), the returned page number is
\* the requested one clamped into [1, total_pages], a search that met no
\* error renders a result page whatever page was asked for, and the page is
\* not empty when there is a result.
PageClamped ==
  /\ response.template = "results.html" =>
       /\ response.total = Len(results)
       /\ response.total_pages >= 1
       /\ response.total_pages * PER_PAGE >= response.total
       /\ response.total_pages > 1 =>
            (response.total_pages - 1) * PER_PAGE < response.total
       /\ response.page =
            (IF RequestedPage < 1 THEN 1
             ELSE IF RequestedPage > response.total_pages THEN response.total_pages
             ELSE RequestedPage)
       /\ response.total > 0 => response.results # << >>
  /\ (pc = "done" /\ requests # << >> /\ exc = "") => response.template = "results.html"

\* C4 witness: a page far beyond the last one was asked of two pages.
HugePageClamped ==
  /\ response.template = "results.html"
  /\ posted.page.kind = "int" /\ posted.page.n > response.total_pages
  /\ response.total_pages = 2
  /\ response.page = 2

\* The failures the retry policy covers: rate limit, server error, connection.
TransientFailures == { "HTTPError 429", "HTTPError 503", "ConnectionError" }

\* The number of requests issued for the route at position k of the loops.
Attempts(k) == Cardinality({ i \in 1..Len(requests) : requests[i].k = k })

\* C5: a transient failure of a route's query is raised to the handler only
\* after the query was issued again.
TransientFailureRetried == exc \in TransientFailures => Attempts(route) > 1

\* C6: a malformed upstream entry is skipped: a search whose queries all
\* returned a fare list renders a result page.
MalformedEntrySkipped ==
  (pc = "done" /\ requests # << >> /\ exc \notin UpstreamFailures) =>
    response.template = "results.html"

\* C7: when the query of a route fails, the search ends at once with the one
\* "search failed" message: no result page, none of the fares collected so
\* far, and no request after the failing one.
RouteFailureAbortsSearch ==
  exc \in UpstreamFailures =>
    /\ pc = "done"
    /\ response.template = "index.html"
    /\ response.errors = << "Search failed" >>
    /\ response.results = << >>
    /\ Len(requests) = route
    /\ \A i \in 1..Len(requests) : requests[i].k <= route

\* C7 witness: the second of three routes failed after the first gave fares.
SecondRouteFailed ==
  /\ exc \in UpstreamFailures
  /\ route = 2
  /\ NumRoutes(dep_airports, dest_airports) = 3
  /\ results # << >>

\* Some code the form supplies is absent from the reference data.
UnknownCodeSupplied ==
  \/ posted.departure_country # "" /\ posted.departure_country \notin Countries(AIRPORTS_RAW)
  \/ \E i \in 1..Len(posted.departures) : posted.departures[i] \notin ValidCodes(AIRPORTS_RAW)
  \/ posted.arrival # "" /\ posted.arrival \notin ValidCodes(AIRPORTS_RAW)
  \/ \E i \in 1..Len(posted.arrival_countries) :
       posted.arrival_countries[i] \notin Countries(AIRPORTS_RAW)

\* C8: a form supplying a country or airport code absent from the reference
\* data is rejected with a validation error and no route is queried.
UnknownCodeRejected ==
  (pc # "idle" /\ UnknownCodeSupplied) => (errors # << >> /\ requests = << >>)

\* C9: a search that ends with a result page has issued exactly one request
\* for each route of the cross product of the departure and arrival airport
\* sets, one at a time.
OneRequestPerRoute ==
  response.template = "results.html" =>
    \A d \in Range(dep_airports) : \A a \in Range(dest_airports) :
      Cardinality({ i \in 1..Len(requests) :
                      requests[i].dep = d /\ requests[i].arr = a }) = 1

\* The round-trip combinations whose inbound date is varied.
InboundProbes == { RT_Mon, RT_MonMon, RT_Tue }

\* C10: with a weekday filter set, every fare record collected has an
\* outbound date of that weekday, for both trip types; the inbound date of a
\* round trip has no part in it: moving it to any other day changes neither
\* whether the combination is kept nor its outbound date.
WeekdayFilterOnOutbound ==
  crit.wanted_weekday # None =>
    /\ \A i \in 1..Len(results) :
         Weekday(results[i].out_date) = Val(crit.wanted_weekday)
    /\ \A i \in 1..Len(response.results) :
         Weekday(response.results[i].out_date) = Val(crit.wanted_weekday)
    /\ ~crit.one_way =>
         \A c \in InboundProbes : \A d \in DayFrom..(DayFrom + 7) :
           NormalizeRoundTrip([c EXCEPT !.inbound = Departs(d)], "DUB", "STN",
                              crit.currency, crit.max_price, crit.wanted_weekday).tag
             = NormalizeRoundTrip(c, "DUB", "STN", crit.currency, crit.max_price,
                                  crit.wanted_weekday).tag

\* C10 witness: a round trip kept under the filter although it returns on
\* another weekday, while a combination leaving on another weekday was dropped.
KeptDespiteInboundWeekday ==
  /\ response.template = "results.html"
  /\ ~crit.one_way
  /\ crit.wanted_weekday # None
  /\ response.total = 2
  /\ \E i \in 1..Len(results) :
       Weekday(results[i].in_date) # Val(crit.wanted_weekday)

====
